---- MODULE Spec2Model ----
(***************************************************************************)
(* Salesforce OAuth web-server demo: the OAuth authorization-code flow     *)
(* with PKCE, the session it keeps, and the routes guarded by it.          *)
(*                                                                         *)
(* The repository holds two implementations of the OAuth routes:           *)
(*   - src/salesforce/api.js: initiateOAuthFlow, handleOAuthCallback,      *)
(*     requireAuth, logout (PKCE and the state parameter);                 *)
(*   - src/server.js: the routes written inline (PKCE, no state).          *)
(* The variable impl says which of the two serves the requests of a run.   *)
(*                                                                         *)
(* Encoding of JavaScript values: 0 is undefined (an absent field or query *)
(* parameter), a negative number is the empty string, a positive number is *)
(* a non-empty string.  Truthy is JavaScript's truthiness on that encoding.*)
(***************************************************************************)
EXTENDS Integers, Sequences, FiniteSets, Bags, TLC

\* ---------------------------------------------------------------- bounds
\* Number of values crypto.randomBytes hands out in a run (initiates that
\* pass the configuration check).
MaxNonce == 2
\* Number of requests that may await an upstream answer at the same time.
MaxInflight == 1
\* Number of distinct tokens (each with its instance URL) the provider can
\* answer a valid exchange with.
MaxToken == 1

VARIABLES
    impl,       \* "api": the handlers of salesforce/api.js; "server": server.js inline
    config,     \* the configuration object read from the environment
    store,      \* the session store: session id -> session data
    nonce,      \* how many random values crypto.randomBytes has handed out
    redirects,  \* the authorization redirects issued so far, in order
    pending,    \* the requests suspended at an await (a bag)
    ev          \* what the last handler step received, sent and answered

vars == <<impl, config, store, nonce, redirects, pending, ev>>

\* The sessions of a run: the session ids the store holds data for.
Sessions == DOMAIN store

\* ---------------------------------------------------------------- values
Truthy(x) == x > 0

EmptySession ==
    [codeVerifier |-> 0, oauthState |-> 0, accessToken |-> 0, instanceUrl |-> 0]

NoInput == [code |-> 0, error |-> 0, error_description |-> 0, state |-> 0]

NoOut == [to |-> "none"]

\* Query values a client can put on /oauth/callback: absent (0), empty
\* (negative), or a value.  A code k is the code the provider issued for the
\* k-th redirect, a state k is the state of the k-th redirect; a k above the
\* number of redirects issued so far is a code the provider never issued, a
\* state no redirect carried.
CodeParams == {0, 0 - 1} \cup (1 .. MaxNonce)
StateParams == {0} \cup (1 .. MaxNonce)
\* 1 stands for "access_denied", 2 for "User denied".
ErrorParams == {0, 0 - 1, 1}
DescriptionParams == {0, 2}

\* The queries the model sends: every code and state without an error; an
\* error with and without description, code and state; an empty error
\* parameter with and without a code.
Queries ==
    {q \in [code : CodeParams, error : ErrorParams,
            error_description : DescriptionParams, state : StateParams] :
       \/ q.error = 0 /\ q.error_description = 0
       \/ q.error = 1 /\ q.code \in {0, 1} /\ q.state = q.code
       \/ q.error < 0 /\ q.error_description = 0 /\ q.code \in {0, 1} /\ q.state = q.code}

\* ------------------------------------------------------------------ PKCE
\* crypto.randomBytes(32).toString('base64url'): the k-th draw, taken to
\* differ from every earlier draw.
generateCodeVerifier(k) == k

\* base64url(sha256(verifier)): a function of the verifier alone, injective
\* on the verifiers of a run, and not the verifier itself.
generateCodeChallenge(verifier) == <<"S256", verifier>>

\* crypto.randomBytes(16).toString('base64url')
generateState(k) == k

\* ------------------------------------------------------- session middleware
\* express-session: a request works on its own copy of the session data,
\* loaded from the store when the request arrives.
LoadSession(sid) == store[sid]

\* A session middleware that keeps one session object for all session ids.
SaveSession_sharedStore(sid, loaded, session) ==
    IF session # loaded THEN [s \in DOMAIN store |-> session] ELSE store

\* express-session with resave: true: the request's copy is written back at
\* the end of every response, changed or not.
SaveSession_resave(sid, loaded, session) ==
    [store EXCEPT ![sid] = session]

\* express-session at the end of a response (resave: false): the request's
\* copy replaces the stored data when the handler changed it.
SaveSession(sid, loaded, session) ==
    IF session # loaded THEN [store EXCEPT ![sid] = session] ELSE store

\* A request suspends at an await / resumes from it.
CanSuspend == BagCardinality(pending) < MaxInflight
Suspend(req) == pending (+) SetToBag({req})
Resume(req) == pending (-) SetToBag({req})
Suspended == BagToSet(pending)

\* No upstream answer was received in this step.
NoAnswer == [status |-> 0 - 1]

\* One handler step: the request it serves (op, sid, req), the upstream
\* answer it resumed with (got), the upstream request it sent (out) and the
\* response it gave (status 0: none yet, the handler is awaiting).
Step(op, sid, req, got, status, body, detail, redirect, out) ==
    [op |-> op, sid |-> sid, req |-> req, got |-> got, status |-> status,
     body |-> body, detail |-> detail, redirect |-> redirect, out |-> out]

Respond(op, sid, req, status, body, detail, redirect, out) ==
    Step(op, sid, req, NoAnswer, status, body, detail, redirect, out)

\* ---------------------------------------------------------------- provider
\* The token endpoint accepts a code the provider issued together with the
\* verifier whose challenge the authorization request of that code carried.
PkceValid(code, verifier) ==
    /\ code \in 1 .. Len(redirects)
    /\ generateCodeChallenge(verifier) = redirects[code].code_challenge

\* What axios.post to the token endpoint can come back with: a 200 with a
\* token and the instance URL that goes with it (only for a valid exchange),
\* a 200 whose body has a token and no instance_url, a 200 whose body has no
\* token, an error status with or without error_description (3), or no
\* answer at all (status 0: network error or timeout).
TokenResponses(code, verifier) ==
    {[status |-> 200, access_token |-> t, instance_url |-> t, error_description |-> 0] :
        t \in IF PkceValid(code, verifier) THEN 1 .. MaxToken ELSE {}}
    \cup {[status |-> 200, access_token |-> t, instance_url |-> 0, error_description |-> 0] :
            t \in IF PkceValid(code, verifier) THEN {1} ELSE {}}
    \cup {[status |-> 200, access_token |-> 0, instance_url |-> 0, error_description |-> 0]}
    \cup {[status |-> 400, access_token |-> 0, instance_url |-> 0, error_description |-> d] :
            d \in {0, 3}}
    \cup {[status |-> 0, access_token |-> 0, instance_url |-> 0, error_description |-> 0]}

\* The authorization request a redirect sends the browser to.
AuthorizeUrl(state, codeChallenge) ==
    [response_type |-> "code", state |-> state, code_challenge |-> codeChallenge,
     code_challenge_method |-> "S256"]

\* The request axios.post sends to /services/oauth2/token.
TokenRequest(code, codeVerifier) ==
    [to |-> "token", grant_type |-> "authorization_code", code |-> code,
     code_verifier |-> codeVerifier]

\* ------------------------------------------------------------------- Init
Init ==
    /\ impl \in {"api", "server"}
    /\ config \in [clientId : {0, 1}, callbackUrl : {0, 1}]
    /\ store = [s \in {"A"} |-> EmptySession]
    /\ nonce = 0
    /\ redirects = << >>
    /\ pending = EmptyBag
    /\ ev = [op |-> "start"]

\* ------------------------------------------------- salesforce/api.js (OAuth)
\* initiateOAuthFlow that keeps the verifier and state of a flow already
\* pending in the session (codeVerifier ||= ..., oauthState ||= ...).
initiateOAuthFlow_keepsFirst(sid) ==
    /\ impl = "api"
    /\ UNCHANGED <<impl, config, pending>>
    /\ IF ~Truthy(config.clientId) \/ ~Truthy(config.callbackUrl)
       THEN /\ ev' = Respond("initiate", sid, NoInput, 500, "Missing Salesforce configuration", 0, "", NoOut)
            /\ UNCHANGED <<store, nonce, redirects>>
       ELSE /\ nonce < MaxNonce
            /\ LET codeVerifier == generateCodeVerifier(nonce + 1)
                   codeChallenge == generateCodeChallenge(codeVerifier)
                   state == generateState(nonce + 1)
                   loaded == LoadSession(sid)
                   session == IF Truthy(loaded.codeVerifier) THEN loaded
                              ELSE [loaded EXCEPT !.codeVerifier = codeVerifier,
                                                  !.oauthState = state]
               IN /\ nonce' = nonce + 1
                  /\ store' = SaveSession(sid, loaded, session)
                  /\ redirects' = Append(redirects, AuthorizeUrl(state, codeChallenge))
                  /\ ev' = Respond("initiate", sid, NoInput, 302, "", 0, "authorize", NoOut)

\* initiateOAuthFlow that keeps the oauthState of a flow already pending
\* (req.session.oauthState ||= state) while it replaces the verifier.
initiateOAuthFlow_keepsState(sid) ==
    /\ impl = "api"
    /\ UNCHANGED <<impl, config, pending>>
    /\ IF ~Truthy(config.clientId) \/ ~Truthy(config.callbackUrl)
       THEN /\ ev' = Respond("initiate", sid, NoInput, 500, "Missing Salesforce configuration", 0, "", NoOut)
            /\ UNCHANGED <<store, nonce, redirects>>
       ELSE /\ nonce < MaxNonce
            /\ LET codeVerifier == generateCodeVerifier(nonce + 1)
                   codeChallenge == generateCodeChallenge(codeVerifier)
                   state == generateState(nonce + 1)
                   loaded == LoadSession(sid)
                   session == [loaded EXCEPT !.codeVerifier = codeVerifier,
                                             !.oauthState = IF Truthy(@) THEN @ ELSE state]
               IN /\ nonce' = nonce + 1
                  /\ store' = SaveSession(sid, loaded, session)
                  /\ redirects' = Append(redirects, AuthorizeUrl(state, codeChallenge))
                  /\ ev' = Respond("initiate", sid, NoInput, 302, "", 0, "authorize", NoOut)

\* initiateOAuthFlow(req, res, config)
initiateOAuthFlow(sid) ==
    /\ impl = "api"
    /\ UNCHANGED <<impl, config, pending>>
    /\ IF ~Truthy(config.clientId) \/ ~Truthy(config.callbackUrl)
       THEN /\ ev' = Respond("initiate", sid, NoInput, 500, "Missing Salesforce configuration", 0, "", NoOut)
            /\ UNCHANGED <<store, nonce, redirects>>
       ELSE /\ nonce < MaxNonce
            /\ LET codeVerifier == generateCodeVerifier(nonce + 1)
                   codeChallenge == generateCodeChallenge(codeVerifier)
                   state == generateState(nonce + 1)
                   loaded == LoadSession(sid)
                   session == [loaded EXCEPT !.codeVerifier = codeVerifier,
                                             !.oauthState = state]
               IN /\ nonce' = nonce + 1
                  /\ store' = SaveSession(sid, loaded, session)
                  /\ redirects' = Append(redirects, AuthorizeUrl(state, codeChallenge))
                  /\ ev' = Respond("initiate", sid, NoInput, 302, "", 0, "authorize", NoOut)

\* handleOAuthCallback without the comparison of state with oauthState.
handleOAuthCallback_noStateCheck(sid, query) ==
    /\ impl = "api"
    /\ UNCHANGED <<impl, config, store, nonce, redirects>>
    /\ LET session == LoadSession(sid)
           codeVerifier == session.codeVerifier
       IN IF Truthy(query.error)
          THEN /\ ev' = Respond("callback", sid, query, 400, "Authorization failed",
                                IF Truthy(query.error_description)
                                THEN query.error_description ELSE query.error,
                                "", NoOut)
               /\ UNCHANGED pending
          ELSE IF ~Truthy(query.code)
          THEN /\ ev' = Respond("callback", sid, query, 400, "Authorization code not found", 0, "", NoOut)
               /\ UNCHANGED pending
          ELSE IF ~Truthy(codeVerifier)
          THEN /\ ev' = Respond("callback", sid, query, 400, "Session expired", 0, "", NoOut)
               /\ UNCHANGED pending
          ELSE /\ CanSuspend
               /\ pending' = Suspend([kind |-> "callback", sid |-> sid, session |-> session,
                                      code |-> query.code, state |-> query.state,
                                      codeVerifier |-> codeVerifier])
               /\ ev' = Respond("callback", sid, query, 0, "", 0, "",
                                TokenRequest(query.code, codeVerifier))

\* handleOAuthCallback without the check for a missing code.
handleOAuthCallback_noCodeCheck(sid, query) ==
    /\ impl = "api"
    /\ UNCHANGED <<impl, config, store, nonce, redirects>>
    /\ LET session == LoadSession(sid)
           codeVerifier == session.codeVerifier
           expectedState == session.oauthState
       IN IF Truthy(query.error)
          THEN /\ ev' = Respond("callback", sid, query, 400, "Authorization failed",
                                IF Truthy(query.error_description)
                                THEN query.error_description ELSE query.error,
                                "", NoOut)
               /\ UNCHANGED pending
          ELSE IF ~Truthy(codeVerifier)
          THEN /\ ev' = Respond("callback", sid, query, 400, "Session expired", 0, "", NoOut)
               /\ UNCHANGED pending
          ELSE IF ~Truthy(expectedState) \/ query.state # expectedState
          THEN /\ ev' = Respond("callback", sid, query, 400, "Invalid OAuth state", 0, "", NoOut)
               /\ UNCHANGED pending
          ELSE /\ CanSuspend
               /\ pending' = Suspend([kind |-> "callback", sid |-> sid, session |-> session,
                                      code |-> query.code, state |-> query.state,
                                      codeVerifier |-> codeVerifier])
               /\ ev' = Respond("callback", sid, query, 0, "", 0, "",
                                TokenRequest(query.code, codeVerifier))

\* handleOAuthCallback(req, res, config), up to the await of axios.post
handleOAuthCallback(sid, query) ==
    /\ impl = "api"
    /\ UNCHANGED <<impl, config, store, nonce, redirects>>
    /\ LET session == LoadSession(sid)
           codeVerifier == session.codeVerifier
           expectedState == session.oauthState
       IN IF Truthy(query.error)
          THEN /\ ev' = Respond("callback", sid, query, 400, "Authorization failed",
                                IF Truthy(query.error_description)
                                THEN query.error_description ELSE query.error,
                                "", NoOut)
               /\ UNCHANGED pending
          ELSE IF ~Truthy(query.code)
          THEN /\ ev' = Respond("callback", sid, query, 400, "Authorization code not found", 0, "", NoOut)
               /\ UNCHANGED pending
          ELSE IF ~Truthy(codeVerifier)
          THEN /\ ev' = Respond("callback", sid, query, 400, "Session expired", 0, "", NoOut)
               /\ UNCHANGED pending
          ELSE IF ~Truthy(expectedState) \/ query.state # expectedState
          THEN /\ ev' = Respond("callback", sid, query, 400, "Invalid OAuth state", 0, "", NoOut)
               /\ UNCHANGED pending
          ELSE /\ CanSuspend
               /\ pending' = Suspend([kind |-> "callback", sid |-> sid, session |-> session,
                                      code |-> query.code, state |-> query.state,
                                      codeVerifier |-> codeVerifier])
               /\ ev' = Respond("callback", sid, query, 0, "", 0, "",
                                TokenRequest(query.code, codeVerifier))

\* handleOAuthCallback that forgets to delete req.session.oauthState.
handleOAuthCallbackResume_keepsState(req, tokenResponse) ==
    /\ impl = "api"
    /\ req \in Suspended
    /\ req.kind = "callback"
    /\ tokenResponse \in TokenResponses(req.code, req.codeVerifier)
    /\ UNCHANGED <<impl, config, nonce, redirects>>
    /\ pending' = Resume(req)
    /\ IF tokenResponse.status = 200
       THEN LET session == [req.session EXCEPT
                               !.accessToken = tokenResponse.access_token,
                               !.instanceUrl = tokenResponse.instance_url,
                               !.codeVerifier = 0]
            IN /\ store' = SaveSession(req.sid, req.session, session)
               /\ ev' = Step("callbackDone", req.sid, req, tokenResponse, 302, "", 0, "/app", NoOut)
       ELSE /\ store' = SaveSession(req.sid, req.session, req.session)
            /\ ev' = Step("callbackDone", req.sid, req, tokenResponse, 500, "Authentication failed",
                          tokenResponse.error_description, "", NoOut)

\* handleOAuthCallback that deletes req.session.oauthState and forgets to
\* delete req.session.codeVerifier.
handleOAuthCallbackResume_keepsVerifier(req, tokenResponse) ==
    /\ impl = "api"
    /\ req \in Suspended
    /\ req.kind = "callback"
    /\ tokenResponse \in TokenResponses(req.code, req.codeVerifier)
    /\ UNCHANGED <<impl, config, nonce, redirects>>
    /\ pending' = Resume(req)
    /\ IF tokenResponse.status = 200
       THEN LET session == [req.session EXCEPT
                               !.accessToken = tokenResponse.access_token,
                               !.instanceUrl = tokenResponse.instance_url,
                               !.oauthState = 0]
            IN /\ store' = SaveSession(req.sid, req.session, session)
               /\ ev' = Step("callbackDone", req.sid, req, tokenResponse, 302, "", 0, "/app", NoOut)
       ELSE /\ store' = SaveSession(req.sid, req.session, req.session)
            /\ ev' = Step("callbackDone", req.sid, req, tokenResponse, 500, "Authentication failed",
                          tokenResponse.error_description, "", NoOut)

\* handleOAuthCallback that sends the exchange again when it failed (a retry
\* in the catch block) instead of answering.
handleOAuthCallbackResume_retries(req, tokenResponse) ==
    /\ impl = "api"
    /\ req \in Suspended
    /\ req.kind = "callback"
    /\ tokenResponse \in TokenResponses(req.code, req.codeVerifier)
    /\ UNCHANGED <<impl, config, nonce, redirects>>
    /\ IF tokenResponse.status = 200
       THEN LET session == [req.session EXCEPT
                               !.accessToken = tokenResponse.access_token,
                               !.instanceUrl = tokenResponse.instance_url,
                               !.codeVerifier = 0,
                               !.oauthState = 0]
            IN /\ pending' = Resume(req)
               /\ store' = SaveSession(req.sid, req.session, session)
               /\ ev' = Step("callbackDone", req.sid, req, tokenResponse, 302, "", 0, "/app", NoOut)
       ELSE /\ UNCHANGED <<pending, store>>
            /\ ev' = Step("callbackDone", req.sid, req, tokenResponse, 0, "", 0, "",
                          TokenRequest(req.code, req.codeVerifier))

\* handleOAuthCallback from the return of axios.post to the response
handleOAuthCallbackResume(req, tokenResponse) ==
    /\ impl = "api"
    /\ req \in Suspended
    /\ req.kind = "callback"
    /\ tokenResponse \in TokenResponses(req.code, req.codeVerifier)
    /\ UNCHANGED <<impl, config, nonce, redirects>>
    /\ pending' = Resume(req)
    /\ IF tokenResponse.status = 200
       THEN LET session == [req.session EXCEPT
                               !.accessToken = tokenResponse.access_token,
                               !.instanceUrl = tokenResponse.instance_url,
                               !.codeVerifier = 0,
                               !.oauthState = 0]
            IN /\ store' = SaveSession(req.sid, req.session, session)
               /\ ev' = Step("callbackDone", req.sid, req, tokenResponse, 302, "", 0, "/app", NoOut)
       ELSE /\ store' = SaveSession(req.sid, req.session, req.session)
            /\ ev' = Step("callbackDone", req.sid, req, tokenResponse, 500, "Authentication failed",
                             tokenResponse.error_description, "", NoOut)

\* logout(req, res): req.session.destroy, then { success: true }
logout(sid) ==
    /\ impl = "api"
    /\ UNCHANGED <<impl, config, nonce, redirects, pending>>
    /\ store' = [store EXCEPT ![sid] = EmptySession]
    /\ ev' = Respond("logout", sid, NoInput, 200, "success", 0, "", NoOut)

\* ------------------------------------------------------ server.js (OAuth)
\* The route that refuses to start a flow while the session still holds the
\* verifier of an earlier one.
getAuthSalesforce_refusesWhilePending(sid) ==
    /\ impl = "server"
    /\ UNCHANGED <<impl, config, pending>>
    /\ IF ~Truthy(config.clientId) \/ ~Truthy(config.callbackUrl)
       THEN /\ ev' = Respond("initiate", sid, NoInput, 500, "Missing Salesforce configuration", 0, "", NoOut)
            /\ UNCHANGED <<store, nonce, redirects>>
       ELSE IF Truthy(LoadSession(sid).codeVerifier)
       THEN /\ ev' = Respond("initiate", sid, NoInput, 400, "Flow already in progress", 0, "", NoOut)
            /\ UNCHANGED <<store, nonce, redirects>>
       ELSE /\ nonce < MaxNonce
            /\ LET codeVerifier == generateCodeVerifier(nonce + 1)
                   codeChallenge == generateCodeChallenge(codeVerifier)
                   loaded == LoadSession(sid)
                   session == [loaded EXCEPT !.codeVerifier = codeVerifier]
               IN /\ nonce' = nonce + 1
                  /\ store' = SaveSession(sid, loaded, session)
                  /\ redirects' = Append(redirects, AuthorizeUrl(0, codeChallenge))
                  /\ ev' = Respond("initiate", sid, NoInput, 302, "", 0, "authorize", NoOut)

\* The route that generates and stores the verifier before it looks at the
\* configuration.
getAuthSalesforce_storesBeforeCheck(sid) ==
    /\ impl = "server"
    /\ UNCHANGED <<impl, config, pending>>
    /\ nonce < MaxNonce
    /\ LET codeVerifier == generateCodeVerifier(nonce + 1)
           codeChallenge == generateCodeChallenge(codeVerifier)
           loaded == LoadSession(sid)
           session == [loaded EXCEPT !.codeVerifier = codeVerifier]
       IN /\ nonce' = nonce + 1
          /\ store' = SaveSession(sid, loaded, session)
          /\ IF ~Truthy(config.clientId) \/ ~Truthy(config.callbackUrl)
             THEN /\ ev' = Respond("initiate", sid, NoInput, 500, "Missing Salesforce configuration", 0, "", NoOut)
                  /\ UNCHANGED redirects
             ELSE /\ redirects' = Append(redirects, AuthorizeUrl(0, codeChallenge))
                  /\ ev' = Respond("initiate", sid, NoInput, 302, "", 0, "authorize", NoOut)

\* app.get('/auth/salesforce')
getAuthSalesforce(sid) ==
    /\ impl = "server"
    /\ UNCHANGED <<impl, config, pending>>
    /\ IF ~Truthy(config.clientId) \/ ~Truthy(config.callbackUrl)
       THEN /\ ev' = Respond("initiate", sid, NoInput, 500, "Missing Salesforce configuration", 0, "", NoOut)
            /\ UNCHANGED <<store, nonce, redirects>>
       ELSE /\ nonce < MaxNonce
            /\ LET codeVerifier == generateCodeVerifier(nonce + 1)
                   codeChallenge == generateCodeChallenge(codeVerifier)
                   loaded == LoadSession(sid)
                   session == [loaded EXCEPT !.codeVerifier = codeVerifier]
               IN /\ nonce' = nonce + 1
                  /\ store' = SaveSession(sid, loaded, session)
                  /\ redirects' = Append(redirects, AuthorizeUrl(0, codeChallenge))
                  /\ ev' = Respond("initiate", sid, NoInput, 302, "", 0, "authorize", NoOut)

\* The route that reports the provider's error only when no code came with
\* it (if (error && !code)).
getOAuthCallback_errorOnlyWithoutCode(sid, query) ==
    /\ impl = "server"
    /\ UNCHANGED <<impl, config, store, nonce, redirects>>
    /\ LET session == LoadSession(sid)
           codeVerifier == session.codeVerifier
       IN IF Truthy(query.error) /\ ~Truthy(query.code)
          THEN /\ ev' = Respond("callback", sid, query, 400, "Authorization failed",
                                IF Truthy(query.error_description)
                                THEN query.error_description ELSE query.error,
                                "", NoOut)
               /\ UNCHANGED pending
          ELSE IF ~Truthy(query.code)
          THEN /\ ev' = Respond("callback", sid, query, 400, "Authorization code not found", 0, "", NoOut)
               /\ UNCHANGED pending
          ELSE IF ~Truthy(codeVerifier)
          THEN /\ ev' = Respond("callback", sid, query, 400, "Session expired", 0, "", NoOut)
               /\ UNCHANGED pending
          ELSE /\ CanSuspend
               /\ pending' = Suspend([kind |-> "callback", sid |-> sid, session |-> session,
                                      code |-> query.code, codeVerifier |-> codeVerifier])
               /\ ev' = Respond("callback", sid, query, 0, "", 0, "",
                                TokenRequest(query.code, codeVerifier))

\* The route without the check for a missing codeVerifier.
getOAuthCallback_noVerifierCheck(sid, query) ==
    /\ impl = "server"
    /\ UNCHANGED <<impl, config, store, nonce, redirects>>
    /\ LET session == LoadSession(sid)
           codeVerifier == session.codeVerifier
       IN IF Truthy(query.error)
          THEN /\ ev' = Respond("callback", sid, query, 400, "Authorization failed",
                                IF Truthy(query.error_description)
                                THEN query.error_description ELSE query.error,
                                "", NoOut)
               /\ UNCHANGED pending
          ELSE IF ~Truthy(query.code)
          THEN /\ ev' = Respond("callback", sid, query, 400, "Authorization code not found", 0, "", NoOut)
               /\ UNCHANGED pending
          ELSE /\ CanSuspend
               /\ pending' = Suspend([kind |-> "callback", sid |-> sid, session |-> session,
                                      code |-> query.code, codeVerifier |-> codeVerifier])
               /\ ev' = Respond("callback", sid, query, 0, "", 0, "",
                                TokenRequest(query.code, codeVerifier))

\* app.get('/oauth/callback'), up to the await of axios.post
getOAuthCallback(sid, query) ==
    /\ impl = "server"
    /\ UNCHANGED <<impl, config, store, nonce, redirects>>
    /\ LET session == LoadSession(sid)
           codeVerifier == session.codeVerifier
       IN IF Truthy(query.error)
          THEN /\ ev' = Respond("callback", sid, query, 400, "Authorization failed",
                                IF Truthy(query.error_description)
                                THEN query.error_description ELSE query.error,
                                "", NoOut)
               /\ UNCHANGED pending
          ELSE IF ~Truthy(query.code)
          THEN /\ ev' = Respond("callback", sid, query, 400, "Authorization code not found", 0, "", NoOut)
               /\ UNCHANGED pending
          ELSE IF ~Truthy(codeVerifier)
          THEN /\ ev' = Respond("callback", sid, query, 400, "Session expired", 0, "", NoOut)
               /\ UNCHANGED pending
          ELSE /\ CanSuspend
               /\ pending' = Suspend([kind |-> "callback", sid |-> sid, session |-> session,
                                      code |-> query.code, codeVerifier |-> codeVerifier])
               /\ ev' = Respond("callback", sid, query, 0, "", 0, "",
                                TokenRequest(query.code, codeVerifier))

\* The route that forgets to delete req.session.codeVerifier.
getOAuthCallbackResume_keepsVerifier(req, tokenResponse) ==
    /\ impl = "server"
    /\ req \in Suspended
    /\ req.kind = "callback"
    /\ tokenResponse \in TokenResponses(req.code, req.codeVerifier)
    /\ UNCHANGED <<impl, config, nonce, redirects>>
    /\ pending' = Resume(req)
    /\ IF tokenResponse.status = 200
       THEN LET session == [req.session EXCEPT
                               !.accessToken = tokenResponse.access_token,
                               !.instanceUrl = tokenResponse.instance_url]
            IN /\ store' = SaveSession(req.sid, req.session, session)
               /\ ev' = Step("callbackDone", req.sid, req, tokenResponse, 302, "", 0, "/app", NoOut)
       ELSE /\ store' = SaveSession(req.sid, req.session, req.session)
            /\ ev' = Step("callbackDone", req.sid, req, tokenResponse, 500, "Authentication failed",
                          tokenResponse.error_description, "", NoOut)

\* app.get('/oauth/callback') from the return of axios.post to the response
getOAuthCallbackResume(req, tokenResponse) ==
    /\ impl = "server"
    /\ req \in Suspended
    /\ req.kind = "callback"
    /\ tokenResponse \in TokenResponses(req.code, req.codeVerifier)
    /\ UNCHANGED <<impl, config, nonce, redirects>>
    /\ pending' = Resume(req)
    /\ IF tokenResponse.status = 200
       THEN LET session == [req.session EXCEPT
                               !.accessToken = tokenResponse.access_token,
                               !.instanceUrl = tokenResponse.instance_url,
                               !.codeVerifier = 0]
            IN /\ store' = SaveSession(req.sid, req.session, session)
               /\ ev' = Step("callbackDone", req.sid, req, tokenResponse, 302, "", 0, "/app", NoOut)
       ELSE /\ store' = SaveSession(req.sid, req.session, req.session)
            /\ ev' = Step("callbackDone", req.sid, req, tokenResponse, 500, "Authentication failed",
                             tokenResponse.error_description, "", NoOut)

\* The route that deletes the token fields only (delete req.session.accessToken,
\* delete req.session.instanceUrl) instead of destroying the session.
postApiLogout_onlyToken(sid) ==
    /\ impl = "server"
    /\ UNCHANGED <<impl, config, nonce, redirects, pending>>
    /\ store' = [store EXCEPT ![sid] = [@ EXCEPT !.accessToken = 0, !.instanceUrl = 0]]
    /\ ev' = Respond("logout", sid, NoInput, 200, "success", 0, "", NoOut)

\* app.post('/api/logout'): req.session.destroy, then { success: true }
postApiLogout(sid) ==
    /\ impl = "server"
    /\ UNCHANGED <<impl, config, nonce, redirects, pending>>
    /\ store' = [store EXCEPT ![sid] = EmptySession]
    /\ ev' = Respond("logout", sid, NoInput, 200, "success", 0, "", NoOut)

\* ------------------------------------------------- the guarded surfaces
\* requireAuth(req, res, next) in front of the application page
requireAuth(sid) ==
    /\ impl = "api"
    /\ UNCHANGED <<impl, config, store, nonce, redirects, pending>>
    /\ LET session == LoadSession(sid)
       IN IF ~Truthy(session.accessToken)
          THEN ev' = Respond("app", sid, NoInput, 302, "", 0, "/", NoOut)
          ELSE ev' = Respond("app", sid, NoInput, 200, "app.html", 0, "", NoOut)

\* app.get('/app')
getApp(sid) ==
    /\ impl = "server"
    /\ UNCHANGED <<impl, config, store, nonce, redirects, pending>>
    /\ LET session == LoadSession(sid)
       IN IF ~Truthy(session.accessToken)
          THEN ev' = Respond("app", sid, NoInput, 302, "", 0, "/", NoOut)
          ELSE ev' = Respond("app", sid, NoInput, 200, "app.html", 0, "", NoOut)

\* What the provider's REST API can answer to an authenticated call: 200
\* (with the id of the record created, 1), 401 (the token is not accepted),
\* 500, or nothing (status 0: network error).
ApiResponses == {[status |-> st, id |-> IF st = 200 THEN 1 ELSE 0] : st \in {200, 401, 500, 0}}

\* The route without its check of req.session.accessToken.
getApiUser_noAuthCheck(sid) ==
    /\ UNCHANGED <<impl, config, store, nonce, redirects>>
    /\ LET session == LoadSession(sid)
       IN /\ CanSuspend
          /\ pending' = Suspend([kind |-> "user", sid |-> sid])
          /\ ev' = Respond("user", sid, NoInput, 0, "", 0, "",
                           [to |-> "userinfo", url |-> session.instanceUrl,
                            bearer |-> session.accessToken])

\* app.get('/api/user'), up to the await of axios.get
getApiUser(sid) ==
    /\ UNCHANGED <<impl, config, store, nonce, redirects>>
    /\ LET session == LoadSession(sid)
       IN IF ~Truthy(session.accessToken)
          THEN /\ ev' = Respond("user", sid, NoInput, 401, "Not authenticated", 0, "", NoOut)
               /\ UNCHANGED pending
          ELSE /\ CanSuspend
               /\ pending' = Suspend([kind |-> "user", sid |-> sid])
               /\ ev' = Respond("user", sid, NoInput, 0, "", 0, "",
                                [to |-> "userinfo", url |-> session.instanceUrl,
                                 bearer |-> session.accessToken])

\* The route without its catch block: a failure of axios.get leaves the
\* handler without sending a response.
getApiUserResume_noCatch(req, response) ==
    /\ req \in Suspended
    /\ req.kind = "user"
    /\ response \in ApiResponses
    /\ UNCHANGED <<impl, config, nonce, redirects>>
    /\ pending' = Resume(req)
    /\ UNCHANGED store
    /\ IF response.status = 200
       THEN ev' = Step("userDone", req.sid, req, response, 200, "userinfo", 0, "", NoOut)
       ELSE ev' = Step("userDone", req.sid, req, response, 0, "", 0, "", NoOut)

\* app.get('/api/user') from the return of axios.get to the response
getApiUserResume(req, response) ==
    /\ req \in Suspended
    /\ req.kind = "user"
    /\ response \in ApiResponses
    /\ UNCHANGED <<impl, config, nonce, redirects>>
    /\ pending' = Resume(req)
    /\ UNCHANGED store
    /\ IF response.status = 200
       THEN ev' = Step("userDone", req.sid, req, response, 200, "userinfo", 0, "", NoOut)
       ELSE ev' = Step("userDone", req.sid, req, response, 500, "Failed to fetch user info", 0, "", NoOut)

\* The bodies the model posts to /api/lead: lastName and company present,
\* absent (0) or empty (negative).
LeadBodies ==
    {b \in [lastName : {0, 0 - 1, 1}, company : {0, 0 - 1, 1}] :
        b.lastName >= 0 \/ b.company = 1}

\* The route that validates the fields before it checks the accessToken.
postApiLead_validatesFirst(sid, body) ==
    /\ UNCHANGED <<impl, config, store, nonce, redirects>>
    /\ LET session == LoadSession(sid)
       IN IF ~Truthy(body.lastName) \/ ~Truthy(body.company)
          THEN /\ ev' = Respond("lead", sid, body, 400, "Last Name and Company are required", 0, "", NoOut)
               /\ UNCHANGED pending
          ELSE IF ~Truthy(session.accessToken)
          THEN /\ ev' = Respond("lead", sid, body, 401, "Not authenticated", 0, "", NoOut)
               /\ UNCHANGED pending
          ELSE /\ CanSuspend
               /\ pending' = Suspend([kind |-> "lead", sid |-> sid])
               /\ ev' = Respond("lead", sid, body, 0, "", 0, "",
                                [to |-> "lead", url |-> session.instanceUrl,
                                 bearer |-> session.accessToken,
                                 LastName |-> body.lastName, Company |-> body.company,
                                 LeadSource |-> "Web"])

\* app.post('/api/lead'), up to the await of axios.post
postApiLead(sid, body) ==
    /\ UNCHANGED <<impl, config, store, nonce, redirects>>
    /\ LET session == LoadSession(sid)
       IN IF ~Truthy(session.accessToken)
          THEN /\ ev' = Respond("lead", sid, body, 401, "Not authenticated", 0, "", NoOut)
               /\ UNCHANGED pending
          ELSE IF ~Truthy(body.lastName) \/ ~Truthy(body.company)
          THEN /\ ev' = Respond("lead", sid, body, 400, "Last Name and Company are required", 0, "", NoOut)
               /\ UNCHANGED pending
          ELSE /\ CanSuspend
               /\ pending' = Suspend([kind |-> "lead", sid |-> sid])
               /\ ev' = Respond("lead", sid, body, 0, "", 0, "",
                                [to |-> "lead", url |-> session.instanceUrl,
                                 bearer |-> session.accessToken,
                                 LastName |-> body.lastName, Company |-> body.company,
                                 LeadSource |-> "Web"])

\* The route that answers a created lead without the id the provider gave.
postApiLeadResume_noId(req, response) ==
    /\ req \in Suspended
    /\ req.kind = "lead"
    /\ response \in ApiResponses
    /\ UNCHANGED <<impl, config, nonce, redirects>>
    /\ pending' = Resume(req)
    /\ UNCHANGED store
    /\ IF response.status = 200
       THEN ev' = Step("leadDone", req.sid, req, response, 200, "Lead created successfully",
                       0, "", NoOut)
       ELSE ev' = Step("leadDone", req.sid, req, response, 500, "Failed to create lead", 0, "", NoOut)

\* The route that destroys the session when the provider refuses the token
\* (req.session.destroy() on a 401 of the provider).
postApiLeadResume_logsOutOn401(req, response) ==
    /\ req \in Suspended
    /\ req.kind = "lead"
    /\ response \in ApiResponses
    /\ UNCHANGED <<impl, config, nonce, redirects>>
    /\ pending' = Resume(req)
    /\ store' = IF response.status = 401
                THEN [store EXCEPT ![req.sid] = EmptySession]
                ELSE store
    /\ IF response.status = 200
       THEN ev' = Step("leadDone", req.sid, req, response, 200, "Lead created successfully",
                       response.id, "", NoOut)
       ELSE ev' = Step("leadDone", req.sid, req, response, 500, "Failed to create lead", 0, "", NoOut)

\* app.post('/api/lead') from the return of axios.post to the response
postApiLeadResume(req, response) ==
    /\ req \in Suspended
    /\ req.kind = "lead"
    /\ response \in ApiResponses
    /\ UNCHANGED <<impl, config, nonce, redirects>>
    /\ pending' = Resume(req)
    /\ UNCHANGED store
    /\ IF response.status = 200
       THEN ev' = Step("leadDone", req.sid, req, response, 200, "Lead created successfully",
                       response.id, "", NoOut)
       ELSE ev' = Step("leadDone", req.sid, req, response, 500, "Failed to create lead", 0, "", NoOut)

\* ------------------------------------------------ salesforce/api.js (leads)
\* One step of a helper function: the arguments of the call (req), the
\* upstream answer it resumed with (got), the error it threw (thrown, "" for
\* none), the value it returned (returned, 0 for none) and the upstream
\* request it sent (out).
Call(op, req, got, thrown, returned, out) ==
    [op |-> op, req |-> req, got |-> got, thrown |-> thrown,
     returned |-> returned, out |-> out]

\* createLead that validates lastName alone (if (!lastName)).
createLead_checksLastNameOnly(accessToken, instanceUrl, leadData) ==
    /\ impl = "api"
    /\ UNCHANGED <<impl, config, store, nonce, redirects>>
    /\ LET args == [accessToken |-> accessToken, instanceUrl |-> instanceUrl,
                    leadData |-> leadData]
       IN IF ~Truthy(leadData.lastName)
          THEN /\ ev' = Call("createLead", args, NoAnswer,
                             "Last Name and Company are required", 0, NoOut)
               /\ UNCHANGED pending
          ELSE /\ CanSuspend
               /\ pending' = Suspend([kind |-> "createLead"])
               /\ ev' = Call("createLead", args, NoAnswer, "", 0,
                             [to |-> "lead", url |-> instanceUrl, bearer |-> accessToken,
                              LastName |-> leadData.lastName, Company |-> leadData.company,
                              LeadSource |-> "Web"])

\* createLead(accessToken, instanceUrl, leadData), up to the await of axios.post
createLead(accessToken, instanceUrl, leadData) ==
    /\ impl = "api"
    /\ UNCHANGED <<impl, config, store, nonce, redirects>>
    /\ LET args == [accessToken |-> accessToken, instanceUrl |-> instanceUrl,
                    leadData |-> leadData]
       IN IF ~Truthy(leadData.lastName) \/ ~Truthy(leadData.company)
          THEN /\ ev' = Call("createLead", args, NoAnswer,
                             "Last Name and Company are required", 0, NoOut)
               /\ UNCHANGED pending
          ELSE /\ CanSuspend
               /\ pending' = Suspend([kind |-> "createLead"])
               /\ ev' = Call("createLead", args, NoAnswer, "", 0,
                             [to |-> "lead", url |-> instanceUrl, bearer |-> accessToken,
                              LastName |-> leadData.lastName, Company |-> leadData.company,
                              LeadSource |-> "Web"])

\* createLead from the return of axios.post to its return or throw
createLeadResume(req, response) ==
    /\ impl = "api"
    /\ req \in Suspended
    /\ req.kind = "createLead"
    /\ response \in ApiResponses
    /\ UNCHANGED <<impl, config, store, nonce, redirects>>
    /\ pending' = Resume(req)
    /\ IF response.status = 200
       THEN ev' = Call("createLeadDone", req, response, "",
                       [success |-> TRUE, id |-> response.id,
                        message |-> "Lead created successfully"], NoOut)
       ELSE ev' = Call("createLeadDone", req, response, "Failed to create lead", 0, NoOut)

\* The route that reports the configuration it was started with (503 when the
\* client identifier or the callback URL is missing).
getHealth_requiresConfig(sid) ==
    /\ UNCHANGED <<impl, config, store, nonce, redirects, pending>>
    /\ IF ~Truthy(config.clientId) \/ ~Truthy(config.callbackUrl)
       THEN ev' = Respond("health", sid, NoInput, 503, "unhealthy", 0, "", NoOut)
       ELSE ev' = Respond("health", sid, NoInput, 200, "healthy", 0, "", NoOut)

\* getUserInfo(accessToken, instanceUrl), up to the await of axios.get
getUserInfo(accessToken, instanceUrl) ==
    /\ impl = "api"
    /\ UNCHANGED <<impl, config, store, nonce, redirects>>
    /\ LET args == [accessToken |-> accessToken, instanceUrl |-> instanceUrl]
       IN /\ CanSuspend
          /\ pending' = Suspend([kind |-> "getUserInfo"])
          /\ ev' = Call("getUserInfo", args, NoAnswer, "", 0,
                        [to |-> "userinfo", url |-> instanceUrl, bearer |-> accessToken])

\* getUserInfo from the return of axios.get to its return or throw
getUserInfoResume(req, response) ==
    /\ impl = "api"
    /\ req \in Suspended
    /\ req.kind = "getUserInfo"
    /\ response \in ApiResponses
    /\ UNCHANGED <<impl, config, store, nonce, redirects>>
    /\ pending' = Resume(req)
    /\ IF response.status = 200
       THEN ev' = Call("getUserInfoDone", req, response, "", "userinfo", NoOut)
       ELSE ev' = Call("getUserInfoDone", req, response, "Failed to fetch user info", 0, NoOut)

\* app.get('/health')
getHealth(sid) ==
    /\ UNCHANGED <<impl, config, store, nonce, redirects, pending>>
    /\ ev' = Respond("health", sid, NoInput, 200, "healthy", 0, "", NoOut)

\* cookie: { maxAge: 3600000 }: the session ends an hour after it began.
SessionExpires(sid) ==
    /\ store[sid] # EmptySession
    /\ UNCHANGED <<impl, config, nonce, redirects, pending>>
    /\ store' = [store EXCEPT ![sid] = EmptySession]
    /\ ev' = Respond("expire", sid, NoInput, 0, "", 0, "", NoOut)

\* The callbacks whose token request is awaiting its answer.
PendingCallbacks == {req \in Suspended : req.kind = "callback"}

Next ==
    \/ \E sid \in Sessions : initiateOAuthFlow(sid)
    \/ \E sid \in Sessions, query \in Queries : handleOAuthCallback(sid, query)
    \/ \E req \in PendingCallbacks :
          \E r \in TokenResponses(req.code, req.codeVerifier) :
             handleOAuthCallbackResume(req, r)
    \/ \E sid \in Sessions : logout(sid)
    \/ \E sid \in Sessions : requireAuth(sid)
    \/ \E sid \in Sessions : getAuthSalesforce(sid)
    \/ \E sid \in Sessions, query \in Queries : getOAuthCallback(sid, query)
    \/ \E req \in PendingCallbacks :
          \E r \in TokenResponses(req.code, req.codeVerifier) :
             getOAuthCallbackResume(req, r)
    \/ \E sid \in Sessions : postApiLogout(sid)
    \/ \E sid \in Sessions : getApp(sid)
    \/ \E sid \in Sessions : getApiUser(sid)
    \/ \E req \in Suspended, r \in ApiResponses : getApiUserResume(req, r)
    \/ \E sid \in Sessions, body \in LeadBodies : postApiLead(sid, body)
    \/ \E req \in Suspended, r \in ApiResponses : postApiLeadResume(req, r)
    \/ \E sid \in Sessions, leadData \in LeadBodies :
          createLead(store[sid].accessToken, store[sid].instanceUrl, leadData)
    \/ \E req \in Suspended, r \in ApiResponses : createLeadResume(req, r)
    \/ \E sid \in Sessions : getUserInfo(store[sid].accessToken, store[sid].instanceUrl)
    \/ \E req \in Suspended, r \in ApiResponses : getUserInfoResume(req, r)
    \/ \E sid \in Sessions : getHealth(sid)
    \/ \E sid \in Sessions : SessionExpires(sid)

Spec == Init /\ [][Next]_vars

\* The token request of handleOAuthCallback settles: axios.post is given
\* timeout: 10000, so the await ends after ten seconds at the latest, with an
\* answer or with the timeout error (status 0).
TokenExchangeSettles ==
    \E req \in PendingCallbacks :
       \E r \in TokenResponses(req.code, req.codeVerifier) :
          handleOAuthCallbackResume(req, r)

\* The program with the one bounded wait the code has.  The axios.post of
\* the inline route of server.js is given no timeout (axios waits without
\* limit), so nothing makes its await end.
LiveSpec == Spec /\ WF_vars(TokenExchangeSettles)

\* The program serving two browsers: two sessions in the store.
InitTwoSessions ==
    /\ impl \in {"api", "server"}
    /\ config \in [clientId : {0, 1}, callbackUrl : {0, 1}]
    /\ store = [s \in {"A", "B"} |-> EmptySession]
    /\ nonce = 0
    /\ redirects = << >>
    /\ pending = EmptyBag
    /\ ev = [op |-> "start"]

SpecTwoSessions == InitTwoSessions /\ [][Next]_vars

\* ================================================================ claims
\* The session the last step worked on, as the store holds it after the step.
EvSession == store[ev.sid]

\* The last step is the entry of a callback request (everything the handler
\* does before it awaits the token endpoint, or its early response).
CallbackEntry == ev.op = "callback"

\* The last step answered a callback that had awaited the token endpoint.
CallbackDone == ev.op = "callbackDone"

\* C1 (as claimed): a callback with a code and no error, on a session with a
\* codeVerifier, whose state is absent or differs from the stored oauthState
\* (or none is stored), is answered 400 and sends no token request; a token
\* request is sent only when the state equals the stored oauthState.
C1_StateCheckedBeforeExchange ==
    CallbackEntry =>
        LET query == ev.req
            mismatch == \/ ~Truthy(query.state)
                        \/ ~Truthy(EvSession.oauthState)
                        \/ query.state # EvSession.oauthState
        IN /\ ( /\ Truthy(query.code)
                /\ ~Truthy(query.error)
                /\ Truthy(EvSession.codeVerifier)
                /\ mismatch ) => (ev.status = 400 /\ ev.out = NoOut)
           /\ ev.out # NoOut => ~mismatch

\* C2: a callback that got a 200 from the token endpoint answers with a
\* redirect to /app, and the session then holds the response's access_token
\* and instance_url and neither codeVerifier nor oauthState.
C2_SuccessStoresTokenClearsFlow ==
    (CallbackDone /\ ev.got.status = 200) =>
        /\ ev.status = 302
        /\ ev.redirect = "/app"
        /\ EvSession.accessToken = ev.got.access_token
        /\ EvSession.instanceUrl = ev.got.instance_url
        /\ EvSession.codeVerifier = 0
        /\ EvSession.oauthState = 0

C2_Witness ==
    /\ CallbackDone
    /\ ev.got.status = 200
    /\ Truthy(ev.req.session.codeVerifier)
    /\ Truthy(EvSession.accessToken)

\* A session holds a pending-flow field next to an accessToken.
PendingAndToken(session) ==
    /\ Truthy(session.codeVerifier) \/ Truthy(session.oauthState)
    /\ Truthy(session.accessToken)

\* C3 (as claimed): no session ever holds a pending-flow field (codeVerifier
\* or oauthState) and an accessToken at the same time.
C3_PendingExcludesToken ==
    \A sid \in Sessions : ~PendingAndToken(store[sid])

\* C3 (amended): a session comes to hold a pending-flow field next to an
\* accessToken only by an initiate on a session that already holds the
\* accessToken; no callback, logout or other request brings the two together.
C3_OnlyInitiateJoinsPendingAndToken ==
    [][\A sid \in Sessions :
          (PendingAndToken(store'[sid]) /\ ~PendingAndToken(store[sid])) =>
              /\ ev'.op = "initiate"
              /\ ev'.sid = sid
              /\ ev'.status = 302
              /\ Truthy(store[sid].accessToken)
              /\ store'[sid].accessToken = store[sid].accessToken]_vars

C3_Witness ==
    /\ ev.op = "initiate"
    /\ PendingAndToken(EvSession)

\* C4 (as claimed): when the token exchange fails (error status, network
\* error or timeout) the callback answers 500, the session gains no
\* accessToken, and afterwards it holds neither codeVerifier nor oauthState.
C4_FailedExchangeClearsFlow ==
    [][(ev'.op = "callbackDone" /\ ev'.got.status # 200) =>
          /\ ev'.status = 500
          /\ store'[ev'.sid].accessToken = store[ev'.sid].accessToken
          /\ store'[ev'.sid].codeVerifier = 0
          /\ store'[ev'.sid].oauthState = 0]_vars

\* C5 (as claimed): when a callback is answered 400 for a state mismatch or a
\* missing verifier, the session holds neither codeVerifier nor oauthState,
\* so the same session answers a later callback with 'Session expired'.
C5_RejectionClearsFlow ==
    (CallbackEntry /\ ev.status = 400
        /\ ev.body \in {"Invalid OAuth state", "Session expired"}) =>
        /\ EvSession.codeVerifier = 0
        /\ EvSession.oauthState = 0

\* The callback carries a code issued for another challenge than the one of
\* the verifier the session holds now (a later initiate replaced it), with
\* the state of the redirect that code belongs to.
StaleFlowCallback(query, session) ==
    /\ ~Truthy(query.error)
    /\ query.code \in 1 .. Len(redirects)
    /\ query.state = redirects[query.code].state
    /\ Truthy(session.codeVerifier)
    /\ generateCodeChallenge(session.codeVerifier) # redirects[query.code].code_challenge

\* C6: an initiate replaces the stored codeVerifier (and oauthState) by the
\* ones of its own redirect; a callback of an earlier initiate is then either
\* rejected for its state or sends an exchange the provider refuses, and the
\* answer to such an exchange never gives the session an accessToken.
C6_FirstFlowNeverSucceeds ==
    [][/\ (ev'.op = "initiate" /\ ev'.status = 302) =>
            LET after == store'[ev'.sid]
                before == store[ev'.sid]
                sent == redirects'[Len(redirects')]
            IN /\ after.codeVerifier # before.codeVerifier
               /\ generateCodeChallenge(after.codeVerifier) = sent.code_challenge
               /\ impl = "api" => /\ after.oauthState # before.oauthState
                                  /\ after.oauthState = sent.state
       /\ (ev'.op = "callback" /\ StaleFlowCallback(ev'.req, store[ev'.sid])) =>
            \/ ev'.status = 400 /\ ev'.body = "Invalid OAuth state" /\ ev'.out = NoOut
            \/ ev'.status = 0 /\ ~PkceValid(ev'.out.code, ev'.out.code_verifier)
       /\ (ev'.op = "callbackDone" /\ ~PkceValid(ev'.req.code, ev'.req.codeVerifier)) =>
            /\ ~Truthy(ev'.got.access_token)
            /\ \/ store'[ev'.sid].accessToken = store[ev'.sid].accessToken
               \/ ~Truthy(store'[ev'.sid].accessToken)]_vars

C6_Witness ==
    /\ CallbackEntry
    /\ StaleFlowCallback(ev.req, EvSession)
    /\ ev.status \in {0, 400}

\* The error response of the callback: 400 with error_description, or with
\* the error code when there is no description, and no token request.
UpstreamErrorResponse ==
    /\ ev.status = 400
    /\ ev.body = "Authorization failed"
    /\ ev.detail = IF Truthy(ev.req.error_description)
                   THEN ev.req.error_description ELSE ev.req.error
    /\ ev.out = NoOut

\* C7 (as claimed): every callback whose query contains an error parameter is
\* answered 400 with the description (or the error code) and sends no token
\* request.
C7_ErrorParameterShortCircuits ==
    (CallbackEntry /\ ev.req.error # 0) => UpstreamErrorResponse

\* C7 (amended): every callback whose query contains a non-empty error
\* parameter, with or without a code, is answered 400 with the description
\* (or the error code) and sends no token request.
C7_NonEmptyErrorShortCircuits ==
    (CallbackEntry /\ Truthy(ev.req.error)) => UpstreamErrorResponse

C7_Witness ==
    /\ CallbackEntry
    /\ Truthy(ev.req.error)
    /\ Truthy(ev.req.code)
    /\ Truthy(EvSession.codeVerifier)
    /\ ev.status = 400

\* C8: every callback with neither a code nor an error is answered 400
\* 'Authorization code not found' and sends no token request, whatever the
\* session holds.
C8_MissingCodeRejected ==
    (CallbackEntry /\ ~Truthy(ev.req.code) /\ ~Truthy(ev.req.error)) =>
        /\ ev.status = 400
        /\ ev.body = "Authorization code not found"
        /\ ev.out = NoOut

C8_Witness ==
    /\ CallbackEntry
    /\ ev.req.code = 0
    /\ ev.req.error = 0
    /\ Truthy(EvSession.codeVerifier)
    /\ ev.status = 400

\* The 'Session expired' response of the callback, without a token request.
SessionExpiredResponse ==
    /\ ev.status = 400
    /\ ev.body = "Session expired"
    /\ ev.out = NoOut

\* C9 (as claimed): every callback carrying a code on a session without a
\* codeVerifier is answered 400 'Session expired' and sends no token request.
C9_CodeWithoutVerifierExpired ==
    (CallbackEntry /\ Truthy(ev.req.code) /\ ~Truthy(EvSession.codeVerifier)) =>
        SessionExpiredResponse

\* C9 (amended): every callback carrying a code and no error, on a session
\* without a codeVerifier, is answered 400 'Session expired' and sends no
\* token request.
C9_CodeNoErrorWithoutVerifierExpired ==
    (CallbackEntry /\ Truthy(ev.req.code) /\ ~Truthy(ev.req.error)
        /\ ~Truthy(EvSession.codeVerifier)) => SessionExpiredResponse

C9_Witness ==
    /\ CallbackEntry
    /\ Truthy(ev.req.code)
    /\ ~Truthy(ev.req.error)
    /\ ~Truthy(EvSession.codeVerifier)
    /\ Truthy(EvSession.accessToken)
    /\ ev.status = 400

\* The callback request compared its state with the stored oauthState and
\* found them equal (the inline route of server.js compares nothing).
PassedStateComparison(req) ==
    /\ impl = "api"
    /\ Truthy(req.session.oauthState)
    /\ req.state = req.session.oauthState

\* C10 (as claimed): a session gets a (new) non-empty accessToken only in the
\* answer of a callback on that session that found a stored codeVerifier,
\* passed the state comparison and received a 200 with that token.
C10_TokenOnlyThroughCheckedCallback ==
    [][\A sid \in Sessions :
          ( /\ Truthy(store'[sid].accessToken)
            /\ store'[sid].accessToken # store[sid].accessToken ) =>
              /\ ev'.op = "callbackDone"
              /\ ev'.sid = sid
              /\ ev'.got.status = 200
              /\ ev'.got.access_token = store'[sid].accessToken
              /\ Truthy(ev'.req.codeVerifier)
              /\ PassedStateComparison(ev'.req)]_vars

\* The configuration has a client identifier and a callback URL.
ConfigComplete == Truthy(config.clientId) /\ Truthy(config.callbackUrl)

\* C11: an initiate under a configuration without client identifier or
\* callback URL answers 500 without a redirect and without an outbound
\* request, draws no random value, issues no authorization request and
\* leaves the session store as it was.
C11_MissingConfigStopsInitiate ==
    [][(ev'.op = "initiate" /\ ~ConfigComplete) =>
          /\ ev'.status = 500
          /\ ev'.redirect = ""
          /\ ev'.out = NoOut
          /\ nonce' = nonce
          /\ redirects' = redirects
          /\ store' = store]_vars

C11_Witness ==
    /\ ev.op = "initiate"
    /\ ev.status = 500
    /\ Truthy(config.clientId)
    /\ ~Truthy(config.callbackUrl)
    /\ nonce = 0
    /\ EvSession = EmptySession

\* C12 (as claimed): an initiate under a complete configuration stores a
\* codeVerifier and an oauthState no earlier redirect belongs to, answers
\* with one redirect whose state is the stored oauthState and whose
\* code_challenge is generateCodeChallenge of the stored codeVerifier, with
\* response_type code and method S256, and sends no outbound request.
C12_InitiateStoresFreshPair ==
    [][(ev'.op = "initiate" /\ ConfigComplete) =>
          LET after == store'[ev'.sid]
              sent == redirects'[Len(redirects')]
          IN /\ ev'.status = 302
             /\ ev'.redirect = "authorize"
             /\ ev'.out = NoOut
             /\ Len(redirects') = Len(redirects) + 1
             /\ Truthy(after.codeVerifier)
             /\ Truthy(after.oauthState)
             /\ \A i \in 1 .. Len(redirects) :
                   /\ redirects[i].code_challenge # generateCodeChallenge(after.codeVerifier)
                   /\ redirects[i].state # after.oauthState
             /\ sent.state = after.oauthState
             /\ sent.code_challenge = generateCodeChallenge(after.codeVerifier)
             /\ sent.response_type = "code"
             /\ sent.code_challenge_method = "S256"]_vars

\* The redirects whose state value the query presents.
RedirectsOfState(state) ==
    {i \in 1 .. Len(redirects) : Truthy(state) /\ redirects[i].state = state}

\* C13: the code_verifier of a token request hashes to the code_challenge of
\* the redirect whose state the callback presented (in the modular flow
\* there is such a redirect for every token request), and the challenge of
\* the k-th redirect is the hash of the k-th verifier generated.
C13_ExchangeVerifierMatchesPresentedState ==
    /\ \A i \in 1 .. Len(redirects) :
          redirects[i].code_challenge = generateCodeChallenge(generateCodeVerifier(i))
    /\ (CallbackEntry /\ ev.out # NoOut) =>
          /\ \A i \in RedirectsOfState(ev.req.state) :
                generateCodeChallenge(ev.out.code_verifier) = redirects[i].code_challenge
          /\ impl = "api" => RedirectsOfState(ev.req.state) # {}

C13_Witness ==
    /\ CallbackEntry
    /\ ev.out # NoOut
    /\ RedirectsOfState(ev.req.state) # {}
    /\ Len(redirects) > 1

\* C14: GET /app, GET /api/user and POST /api/lead let the request through
\* exactly when the session holds a non-empty accessToken; without one /app
\* redirects to '/', the two API routes answer 401, and nothing is sent
\* upstream.
C14_GuardIffAccessToken ==
    LET authenticated == Truthy(EvSession.accessToken)
    IN /\ ev.op = "app" =>
             IF authenticated
             THEN ev.status = 200 /\ ev.body = "app.html"
             ELSE ev.status = 302 /\ ev.redirect = "/" /\ ev.out = NoOut
       /\ ev.op \in {"user", "lead"} =>
             IF authenticated
             THEN ev.status # 401 /\ ev.body # "Not authenticated"
             ELSE ev.status = 401 /\ ev.body = "Not authenticated" /\ ev.out = NoOut

C14_Witness ==
    /\ ev.op = "user"
    /\ ev.status = 401
    /\ Truthy(EvSession.codeVerifier)
    /\ ~Truthy(EvSession.accessToken)

\* The body has a non-empty lastName and a non-empty company.
FieldsComplete(body) == Truthy(body.lastName) /\ Truthy(body.company)

\* C15: POST /api/lead on a session without accessToken answers 401 whether
\* or not lastName and company are there, and the 400 for a missing lastName
\* or company is given only on a session with an accessToken.
C15_AuthBeforeValidation ==
    ev.op = "lead" =>
        /\ ~Truthy(EvSession.accessToken) => (ev.status = 401 /\ ev.out = NoOut)
        /\ ev.status = 400 => (Truthy(EvSession.accessToken) /\ ~FieldsComplete(ev.req))

C15_Witness ==
    /\ ev.op = "lead"
    /\ ev.status = 401
    /\ ~FieldsComplete(ev.req)
    /\ Truthy(EvSession.codeVerifier)

\* The validation failure of the route: 400, no provider request.
RouteValidationError ==
    /\ ev.status = 400
    /\ ev.body = "Last Name and Company are required"
    /\ ev.out = NoOut

\* The validation failure of createLead: the error thrown, no provider request.
ThrownValidationError ==
    /\ ev.thrown = "Last Name and Company are required"
    /\ ev.out = NoOut

\* C16 (as claimed): whenever lastName or company is empty or missing, the
\* route answers 400 and createLead throws, without a provider request; a
\* provider request is sent only when both are non-empty.
C16_MissingFieldsValidationError ==
    /\ ev.op = "lead" =>
          /\ ~FieldsComplete(ev.req) => RouteValidationError
          /\ ev.out # NoOut => FieldsComplete(ev.req)
    /\ ev.op = "createLead" =>
          /\ ~FieldsComplete(ev.req.leadData) => ThrownValidationError
          /\ ev.out # NoOut => FieldsComplete(ev.req.leadData)

\* C16 (amended): whenever lastName or company is empty or missing, no
\* provider request is sent: createLead throws the validation error, the
\* route answers 400 on a session with an accessToken and 401 on a session
\* without one; a provider request is sent only when both are non-empty.
C16_MissingFieldsNoProviderRequest ==
    /\ ev.op = "lead" =>
          /\ ~FieldsComplete(ev.req) =>
                IF Truthy(EvSession.accessToken)
                THEN RouteValidationError
                ELSE ev.status = 401 /\ ev.out = NoOut
          /\ ev.out # NoOut => FieldsComplete(ev.req)
    /\ ev.op = "createLead" =>
          /\ ~FieldsComplete(ev.req.leadData) => ThrownValidationError
          /\ ev.out # NoOut => FieldsComplete(ev.req.leadData)

C16_Witness ==
    /\ ev.op = "createLead"
    /\ Truthy(ev.req.leadData.lastName)
    /\ ev.req.leadData.company < 0
    /\ Truthy(ev.req.accessToken)
    /\ ev.thrown # ""

\* The record-creation request for the given credentials and fields.
LeadRequest(instanceUrl, accessToken, fields) ==
    [to |-> "lead", url |-> instanceUrl, bearer |-> accessToken,
     LastName |-> fields.lastName, Company |-> fields.company, LeadSource |-> "Web"]

\* C17: POST /api/lead on a session with an accessToken and a body with
\* lastName and company sends one request, to the session's instanceUrl with
\* the session's accessToken as bearer and LeadSource 'Web', sends nothing
\* more when the answer arrives, and answers a provider success with 200,
\* success and the provider's id; createLead does the same with the
\* credentials it is called with.
C17_LeadCreatedWithSessionCredentials ==
    /\ (ev.op = "lead" /\ Truthy(EvSession.accessToken) /\ FieldsComplete(ev.req)) =>
          /\ ev.status = 0
          /\ ev.out = LeadRequest(EvSession.instanceUrl, EvSession.accessToken, ev.req)
    /\ ev.op = "leadDone" =>
          /\ ev.out = NoOut
          /\ ev.got.status = 200 =>
                /\ ev.status = 200
                /\ ev.body = "Lead created successfully"
                /\ ev.detail = ev.got.id
                /\ Truthy(ev.detail)
    /\ (ev.op = "createLead" /\ FieldsComplete(ev.req.leadData)) =>
          /\ ev.thrown = ""
          /\ ev.out = LeadRequest(ev.req.instanceUrl, ev.req.accessToken, ev.req.leadData)
    /\ ev.op = "createLeadDone" =>
          /\ ev.out = NoOut
          /\ ev.got.status = 200 =>
                /\ ev.thrown = ""
                /\ ev.returned.success
                /\ ev.returned.id = ev.got.id

C17_Witness ==
    /\ ev.op = "leadDone"
    /\ ev.got.status = 200
    /\ ev.status = 200
    /\ Truthy(EvSession.accessToken)

\* C18 (as claimed): when the provider fails an authenticated call (user
\* info or lead creation), the route answers 401 for a 401 of the provider
\* and 500 for every other failure.
C18_Upstream401AnsweredUnauthenticated ==
    (ev.op \in {"userDone", "leadDone"} /\ ev.got.status # 200) =>
        ev.status = IF ev.got.status = 401 THEN 401 ELSE 500

\* C19 (as claimed): a logout leaves the session without any field; a
\* session without any field answers 401 to /api/user and /api/lead,
\* redirects /app to '/', and answers a callback with a code (and no error)
\* 'Session expired' without a token request; and such a session gets a
\* field again only by a new initiate (a callback begun after the logout
\* finds no verifier until then).
C19_LogoutEndsSessionUntilNewFlow ==
    [][/\ ev'.op = "logout" =>
             /\ ev'.status = 200
             /\ store'[ev'.sid] = EmptySession
       /\ (ev'.op \in {"user", "lead"} /\ store[ev'.sid] = EmptySession) =>
             (ev'.status = 401 /\ ev'.out = NoOut)
       /\ (ev'.op = "app" /\ store[ev'.sid] = EmptySession) =>
             (ev'.status = 302 /\ ev'.redirect = "/")
       /\ ( /\ ev'.op = "callback"
            /\ Truthy(ev'.req.code)
            /\ ~Truthy(ev'.req.error)
            /\ store[ev'.sid] = EmptySession ) =>
             (ev'.status = 400 /\ ev'.body = "Session expired" /\ ev'.out = NoOut)
       /\ \A sid \in Sessions :
             (store[sid] = EmptySession /\ store'[sid] # EmptySession) =>
                 (ev'.op = "initiate" /\ ev'.sid = sid)]_vars

C21_HealthAlwaysHealthy ==
    [][ev'.op = "health" =>
          /\ ev'.status = 200
          /\ ev'.body = "healthy"
          /\ ev'.out = NoOut
          /\ store' = store
          /\ pending' = pending]_vars

C21_Witness ==
    /\ ev.op = "health"
    /\ ev.status = 200
    /\ ~Truthy(config.clientId)
    /\ ~Truthy(config.callbackUrl)

\* C22: the answer of the token endpoint ends the callback request: the
\* handler sends no further token request, it responds (500 after a failed
\* or timed-out exchange), and the request awaits nothing any more.
C22_SingleExchangeAttempt ==
    [][ev'.op = "callbackDone" =>
          /\ ev'.out = NoOut
          /\ ev'.status \in {302, 500}
          /\ ev'.got.status # 200 => ev'.status = 500
          /\ pending' = Resume(ev'.req)
          /\ BagCardinality(pending') = BagCardinality(pending) - 1]_vars

C22_Witness ==
    /\ CallbackDone
    /\ ev.got.status = 0
    /\ ev.status = 500
    /\ PendingCallbacks = {}

\* C23 (as claimed): every callback that awaits the token endpoint is
\* eventually answered, even if the token endpoint never answers.
C23_CallbackEventuallyResponds ==
    (PendingCallbacks # {}) ~> CallbackDone

\* C24 (as claimed): when the token endpoint answers with a status other than
\* success, or with a success whose body has no access_token, the callback
\* answers 500, never redirects to /app, and a session without accessToken
\* stays without one.
C24_BadTokenResponseFails ==
    [][(ev'.op = "callbackDone"
           /\ (ev'.got.status # 200 \/ ~Truthy(ev'.got.access_token))) =>
          /\ ev'.status = 500
          /\ ev'.redirect # "/app"
          /\ ~Truthy(store[ev'.sid].accessToken) => ~Truthy(store'[ev'.sid].accessToken)]_vars

\* The session a step acted for ("" for a step of a helper function, which
\* has no session).
Actor(e) == IF "sid" \in DOMAIN e THEN e.sid ELSE ""

\* C25: a step leaves every session but the one it acts for as it was; what
\* it decides and sends comes from its own session: the guards look at the
\* accessToken of the own session, the callback at the codeVerifier and
\* oauthState of the own session, the credentials sent upstream are those of
\* the own session, and a token stored by a callback is the one its own
\* exchange was answered with.
C25_SessionsIsolated ==
    [][LET e == ev'
           own == store[e.sid]
       IN /\ \A s \in Sessions : s # Actor(e) => store'[s] = store[s]
          /\ e.op \in {"user", "lead"} =>
                /\ e.status = 401 <=> ~Truthy(own.accessToken)
                /\ e.out # NoOut => (e.out.bearer = own.accessToken /\ e.out.url = own.instanceUrl)
          /\ e.op = "app" => (e.status = 302 <=> ~Truthy(own.accessToken))
          /\ (e.op = "callback" /\ Truthy(e.req.code) /\ ~Truthy(e.req.error)) =>
                /\ e.body = "Session expired" <=> ~Truthy(own.codeVerifier)
                /\ e.out # NoOut =>
                      /\ e.out.code_verifier = own.codeVerifier
                      /\ impl = "api" => e.req.state = own.oauthState
          /\ e.op = "callbackDone" =>
                \/ store'[e.sid] = store[e.sid]
                \/ /\ store'[e.sid].accessToken = e.got.access_token
                   /\ store'[e.sid].instanceUrl = e.got.instance_url]_vars

C25_Witness ==
    /\ CallbackDone
    /\ ev.sid = "A"
    /\ Truthy(store["A"].accessToken)
    /\ Truthy(store["B"].codeVerifier)
    /\ ~Truthy(store["B"].accessToken)

\* C26: whatever initiates and callbacks came before, in whatever order, the
\* code_verifier of a token request is the verifier whose challenge the most
\* recent redirect of the session carried.
C26_ExchangeUsesLatestVerifier ==
    (CallbackEntry /\ ev.out # NoOut) =>
        /\ Len(redirects) > 0
        /\ generateCodeChallenge(ev.out.code_verifier)
              = redirects[Len(redirects)].code_challenge

C26_Witness ==
    /\ CallbackEntry
    /\ ev.out # NoOut
    /\ Len(redirects) = 2
    /\ ev.req.code = 1
    /\ generateCodeChallenge(ev.out.code_verifier) # redirects[1].code_challenge

\* The first step of a route's request, and the step that resumes it when
\* the upstream answer (or failure) arrives.
EntryOps == {"initiate", "callback", "app", "user", "lead", "logout", "health"}
DoneOps == {"callbackDone", "userDone", "leadDone"}

\* C27: the first step of every request either responds and sends nothing
\* upstream, or sends one upstream request and awaits it; initiate, /app,
\* logout and /health always respond at once; the step that receives the
\* upstream outcome (success, error status or network failure) responds,
\* with 500 for a failure, and ends the request, so no request is answered
\* twice and none is left without a response once its upstream call ended.
C27_ExactlyOneResponse ==
    [][LET e == ev'
       IN /\ e.op \in EntryOps =>
                \/ /\ e.status > 0
                   /\ e.out = NoOut
                   /\ pending' = pending
                \/ /\ e.status = 0
                   /\ e.out # NoOut
                   /\ BagCardinality(pending') = BagCardinality(pending) + 1
          /\ e.op \in {"initiate", "app", "logout", "health"} => e.status > 0
          /\ e.op \in DoneOps =>
                /\ e.status > 0
                /\ e.out = NoOut
                /\ e.req \in Suspended
                /\ pending' = Resume(e.req)
                /\ e.got.status # 200 => e.status = 500]_vars

C27_Witness ==
    /\ ev.op = "userDone"
    /\ ev.got.status = 0
    /\ ev.status = 500
    /\ Suspended = {}

\* The session holds the verifier (and, in the modular flow, the state) of
\* the most recent redirect.
HoldsLatestFlow(session) ==
    /\ Len(redirects) > 0
    /\ generateCodeChallenge(session.codeVerifier)
          = redirects[Len(redirects)].code_challenge
    /\ impl = "api" => session.oauthState = redirects[Len(redirects)].state

\* The callback of the most recent initiate: its code, its state, no error,
\* on a session that holds what that initiate stored.
FreshFlowCallback(query, session) ==
    /\ ~Truthy(query.error)
    /\ HoldsLatestFlow(session)
    /\ query.code = Len(redirects)
    /\ impl = "api" => query.state = redirects[Len(redirects)].state

\* C28: whatever happened on the session before (failed callbacks included),
\* an initiate under a complete configuration answers with the redirect and
\* leaves the session holding the verifier and state of that redirect; the
\* callback of that initiate is not rejected but sends an exchange the
\* provider accepts; and a callback whose exchange is answered with a token
\* is redirected to /app and leaves the session holding that token.
C28_FreshFlowSucceedsAfterFailure ==
    /\ (ev.op = "initiate" /\ ConfigComplete) =>
          /\ ev.status = 302
          /\ HoldsLatestFlow(EvSession)
    /\ (CallbackEntry /\ FreshFlowCallback(ev.req, EvSession)) =>
          /\ ev.status = 0
          /\ ev.out = TokenRequest(ev.req.code, EvSession.codeVerifier)
          /\ PkceValid(ev.out.code, ev.out.code_verifier)
    /\ (CallbackDone /\ ev.got.status = 200 /\ Truthy(ev.got.access_token)) =>
          /\ ev.status = 302
          /\ ev.redirect = "/app"
          /\ EvSession.accessToken = ev.got.access_token

C28_Witness ==
    /\ CallbackDone
    /\ Len(redirects) = 2
    /\ ev.req.code = 2
    /\ ev.got.status = 200
    /\ Truthy(EvSession.accessToken)
    /\ EvSession.accessToken = ev.got.access_token

\* C29 (as claimed): the callback answers by the first check that fails, in
\* the order error, code, stored verifier, state: an error (with or without
\* a code) gives the upstream error response; then a missing code gives
\* 'Authorization code not found' (also without a stored verifier); then a
\* missing verifier gives 'Session expired' (also with a wrong state); then
\* a state that is not the stored one gives 'Invalid OAuth state'; and only
\* a request that passes all four sends the exchange.
C29_FirstFailingCheckDecides ==
    CallbackEntry =>
        LET query == ev.req
        IN IF Truthy(query.error)
           THEN UpstreamErrorResponse
           ELSE IF ~Truthy(query.code)
           THEN ev.status = 400 /\ ev.body = "Authorization code not found" /\ ev.out = NoOut
           ELSE IF ~Truthy(EvSession.codeVerifier)
           THEN SessionExpiredResponse
           ELSE IF ~Truthy(EvSession.oauthState) \/ query.state # EvSession.oauthState
           THEN ev.status = 400 /\ ev.body = "Invalid OAuth state" /\ ev.out = NoOut
           ELSE ev.status = 0 /\ ev.out = TokenRequest(query.code, EvSession.codeVerifier)

\* C30: in the modular flow every session holds a codeVerifier exactly when
\* it holds an oauthState, and a session that holds them holds the pair one
\* initiate generated: the state and the challenge of one and the same
\* redirect.
C30_VerifierAndStateFromOneInitiate ==
    impl = "api" =>
        \A sid \in Sessions :
            LET session == store[sid]
            IN /\ Truthy(session.codeVerifier) <=> Truthy(session.oauthState)
               /\ Truthy(session.codeVerifier) =>
                     \E i \in 1 .. Len(redirects) :
                        /\ redirects[i].state = session.oauthState
                        /\ redirects[i].code_challenge
                              = generateCodeChallenge(session.codeVerifier)

C30_Witness ==
    /\ impl = "api"
    /\ Len(redirects) = 2
    /\ CallbackDone
    /\ ev.got.status # 200
    /\ Truthy(EvSession.codeVerifier)
    /\ EvSession.oauthState = redirects[2].state

\* The step e is a callback that did not succeed: rejected at once (upstream
\* error, missing code, missing verifier, state mismatch) or answered by the
\* token endpoint with a failure or with a body without access_token.
UnsuccessfulCallback(e) ==
    \/ e.op = "callback" /\ e.status = 400
    \/ e.op = "callbackDone" /\ (e.got.status # 200 \/ ~Truthy(e.got.access_token))

\* C31 (as claimed): a callback that does not succeed leaves the session's
\* accessToken and instanceUrl as they were.
C31_FailedCallbackKeepsToken ==
    [][UnsuccessfulCallback(ev') =>
          /\ store'[ev'.sid].accessToken = store[ev'.sid].accessToken
          /\ store'[ev'.sid].instanceUrl = store[ev'.sid].instanceUrl]_vars

\* C32: a callback that succeeds leaves the session without codeVerifier; a
\* session without codeVerifier gets one only by an initiate; and a callback
\* with a code (and no error) on a session without codeVerifier, the replay
\* of the callback that just succeeded in particular, is answered 400
\* 'Session expired', sends no token request and changes nothing in the
\* session.
C32_ReplayAfterSuccessExpired ==
    [][/\ (ev'.op = "callbackDone" /\ ev'.status = 302) =>
             ~Truthy(store'[ev'.sid].codeVerifier)
       /\ \A sid \in Sessions :
             (~Truthy(store[sid].codeVerifier) /\ Truthy(store'[sid].codeVerifier)) =>
                 (ev'.op = "initiate" /\ ev'.sid = sid)
       /\ ( /\ ev'.op = "callback"
            /\ Truthy(ev'.req.code)
            /\ ~Truthy(ev'.req.error)
            /\ \/ ~Truthy(store[ev'.sid].codeVerifier)
               \/ /\ ev.op = "callbackDone"
                  /\ ev.status = 302
                  /\ ev.sid = ev'.sid
                  /\ ev.req.code = ev'.req.code ) =>
             /\ ev'.status = 400
             /\ ev'.body = "Session expired"
             /\ ev'.out = NoOut
             /\ store' = store]_vars

C32_Witness ==
    /\ CallbackEntry
    /\ SessionExpiredResponse
    /\ ev.req.code = Len(redirects)
    /\ Truthy(ev.req.state)
    /\ Truthy(EvSession.accessToken)
    /\ Truthy(EvSession.instanceUrl)

\* C33 (as claimed), in the form one step shows: a callback does not send a
\* verifier that another callback request has sent, neither one that still
\* awaits its answer nor the one whose exchange was answered just before.
C33_VerifierSentOnce ==
    [][(ev'.op = "callback" /\ ev'.out # NoOut) =>
          /\ \A req \in PendingCallbacks :
                req.codeVerifier # ev'.out.code_verifier
          /\ ~ ( /\ ev.op = "callbackDone"
                 /\ ev.req.codeVerifier = ev'.out.code_verifier )]_vars

\* C34 (as claimed): a logout leaves the session without accessToken, and
\* the answer to a callback that was awaiting the token endpoint when the
\* logout responded does not give the session an accessToken.
C34_LogoutOutlivesAwaitingCallback ==
    [][/\ ev'.op = "logout" => ~Truthy(store'[ev'.sid].accessToken)
       /\ ( /\ ev.op = "logout"
            /\ ev'.op = "callbackDone"
            /\ ev'.sid = ev.sid ) =>
             ~Truthy(store'[ev'.sid].accessToken)]_vars

\* The steps of GET /app, GET /api/user, POST /api/lead and GET /health, and
\* of the helper functions getUserInfo and createLead.
ReadOnlyOps ==
    {"app", "user", "userDone", "lead", "leadDone", "health",
     "getUserInfo", "getUserInfoDone", "createLead", "createLeadDone"}

\* C35: no step of /app, /api/user, /api/lead, /health, getUserInfo or
\* createLead changes a session, whatever its outcome (denied, validation
\* error, upstream success, upstream failure).
C35_ReadOnlyRoutesKeepSession ==
    [][ev'.op \in ReadOnlyOps => store' = store]_vars

C35_Witness ==
    /\ ev.op = "leadDone"
    /\ ev.got.status = 401
    /\ ev.status = 500
    /\ Truthy(EvSession.accessToken)
    /\ Truthy(EvSession.instanceUrl)

\* C36 (as claimed): every session holds accessToken and instanceUrl both or
\* neither; when it holds them they are the token and the instance URL of
\* one token response; and a callback answered with a token leaves the
\* session with the token and the instance URL of that answer.
C36_TokenAndUrlTogether ==
    /\ \A sid \in Sessions :
          /\ Truthy(store[sid].accessToken) <=> Truthy(store[sid].instanceUrl)
          /\ Truthy(store[sid].accessToken) => store[sid].instanceUrl = store[sid].accessToken
    /\ (CallbackDone /\ ev.got.status = 200 /\ Truthy(ev.got.access_token)) =>
          /\ EvSession.accessToken = ev.got.access_token
          /\ EvSession.instanceUrl = ev.got.instance_url
====
